---- MODULE Spec2Model ----
(***************************************************************************)
(* State-machine model of the invoice liquidity pool of EIBS 2.0:          *)
(*   InvoiceLiquidityPool (ERC-4626 vault + loan book),                    *)
(*   InvoiceNFT (one token per financed document hash),                    *)
(*   IdentitySBT (KYB gate of fundLoan),                                   *)
(* and the backend signing service that issues loan authorizations.        *)
(* Every external call is one atomic action: a call that reverts leaves    *)
(* the contract state untouched and only records its error in `last`.      *)
(* Amounts are uint256 in the contracts; the bounds below keep every sum   *)
(* and product far below 2^256, so only underflow and division by zero     *)
(* (Solidity 0.8 panics) are modelled, as the error "Panic".               *)
(***************************************************************************)
EXTENDS Integers, Sequences, FiniteSets, TLC

\* ------------------------------------------------------------------ bounds
MaxAmount == 10
MaxLoans == 2
MaxNonce == 2
MaxTime == 1
MaxSbt == 2
MaxApplied == 2

\* ------------------------------------------------------- program constants
BPS == 10000
MaxUtilizationCeiling == 10000
MaxProtocolFee == 5000
DefaultMaxUtilizationBps == 9000
DefaultProtocolFeeBps == 1000
UintMax == -1

\* --------------------------------------------------------------- addresses
ZeroAddress == "0x0"
Pool == "pool"
OtherPool == "pool2"
Owner == "owner"
FeeRecipient == "feeRecipient"
OracleKey == "oracle"
OtherKey == "oracle2"
Unrelated == "unrelated"
Seller == "seller"
OtherSeller == "seller2"
NFT == "nft"
SBT == "sbt"
Signers == {OracleKey, OtherKey}
LPs == {"lp1", "lp2"}
Businesses == {"b1", "b2"}
SbtAdmin == "admin"
AdminCallers == {Owner, "lp1"}
OracleCallers == Signers
SbtCallers == {SbtAdmin, "b1"}

\* ------------------------------------------------------------- input sets
Hashes == {1, 2}
Nonces == 1..MaxNonce
TokenIds == 1..MaxLoans
SbtIds == 1..MaxSbt
LoanSmall == (4 * MaxAmount) \div 10
LoanBoundary == (9 * MaxAmount) \div 10
LoanAmounts == {LoanSmall, LoanBoundary, MaxAmount}
RepaymentAmounts == {LoanBoundary + 1}
SmallYields == {0, 1}
Yields == {0, MaxAmount}
DueDates == {0, MaxTime + 1}
LaterDueDates == {1, MaxTime + 1}
UtilizationInputs == {DefaultMaxUtilizationBps, MaxUtilizationCeiling, MaxUtilizationCeiling + 1}
FeeInputs == {DefaultProtocolFeeBps, MaxProtocolFee, MaxProtocolFee + 1}
MaxPool == MaxAmount + 2
YieldInputs == {1, 2}
ShareAmounts == {1, LoanSmall, MaxAmount}
YieldFeeInputs == {0, DefaultProtocolFeeBps, MaxProtocolFee}
TxHashes == {1, 2}
HandlerSlots == {1, 2}

VARIABLES
    idle,                \* asset.balanceOf(address(pool))
    totalActiveLoans,
    accumulatedFees,
    balances,            \* lUSDC share balance per holder
    allowances,          \* lUSDC allowance [owner][spender]
    usedNonces,
    loans,               \* tokenId -> Loan
    maxUtilizationBps,
    protocolFeeBps,
    oracle,
    invoiceNFT,          \* pool's pointer to the InvoiceNFT contract
    identitySBT,         \* pool's pointer to the IdentitySBT contract
    nftOwner,            \* InvoiceNFT.owner
    nftOracle,           \* InvoiceNFT.oracle
    nftTokenIdCounter,   \* InvoiceNFT._tokenIdCounter
    nftOwners,           \* InvoiceNFT._owners
    invoices,            \* InvoiceNFT._invoices
    documentHashToTokenId,
    sbtTokenIdCounter,   \* IdentitySBT._tokenIdCounter
    sbtOwners,           \* IdentitySBT._owners
    addressToTokenId,    \* IdentitySBT._addressToTokenId
    businessActive,      \* IdentitySBT.businessInfo[id].isActive
    isBlacklisted,
    now,                 \* block.timestamp
    last,                \* the last external call and its outcome
    transactions,        \* txHash column of the liquidityTransaction table
    lpTotals,            \* the provider's liquidityProvider row
    applied,             \* txHash -> how often its amounts went into lpTotals
    processedTxHashes,   \* the standalone listener's in-memory set
    handlers             \* event handler invocations in flight

poolVars == <<idle, totalActiveLoans, accumulatedFees, balances, allowances,
              usedNonces, loans, maxUtilizationBps, protocolFeeBps, oracle,
              invoiceNFT, identitySBT>>
nftVars == <<nftOwner, nftOracle, nftTokenIdCounter, nftOwners, invoices, documentHashToTokenId>>
sbtVars == <<sbtTokenIdCounter, sbtOwners, addressToTokenId, businessActive, isBlacklisted>>
listenerVars == <<transactions, lpTotals, applied, processedTxHashes, handlers>>
vars == <<poolVars, nftVars, sbtVars, now, last, listenerVars>>

\* ----------------------------------------------------------------- records
NoLoan == [principal |-> 0, expectedYield |-> 0, fundedAt |-> 0,
           isActive |-> FALSE, documentHash |-> 0]
NoInvoice == [documentHash |-> 0, amount |-> 0, dueDate |-> 0,
              riskScore |-> 0, isRepaid |-> FALSE, fundedAt |-> 0]
NoProvider == [exists |-> FALSE, totalDeposited |-> 0, totalWithdrawn |-> 0,
               currentShares |-> 0]
NoHandler == [pc |-> "idle", txHash |-> 0]
NoCall == [op |-> "init", err |-> "ok", caller |-> ZeroAddress, nonce |-> 0,
           trusted |-> FALSE, tamper |-> "none", tokenId |-> 0, amount |-> 0]

\* `last` names the call and its error; the arguments are kept for the calls
\* that succeeded (of a reverted fundLoan only the error and the nonce)
Call(op, err, caller) == [NoCall EXCEPT !.op = op, !.err = err]
FundCall(err, caller, nonce, trusted, tamper, tokenId) ==
    IF err = "ok"
    THEN [op |-> "fundLoan", err |-> err, caller |-> caller, nonce |-> nonce,
          trusted |-> trusted, tamper |-> tamper, tokenId |-> tokenId, amount |-> 0]
    ELSE [NoCall EXCEPT !.op = "fundLoan", !.err = err, !.nonce = nonce]
LoanCall(op, err, caller, tokenId) ==
    IF err = "ok"
    THEN [NoCall EXCEPT !.op = op, !.err = err, !.tokenId = tokenId]
    ELSE [NoCall EXCEPT !.op = op, !.err = err]
\* a call with an amount: depositRepayment(amount), repayLoan(tokenId, actualYield)
AmountCall(op, err, caller, tokenId, amount) ==
    IF err = "ok"
    THEN [NoCall EXCEPT !.op = op, !.err = err, !.tokenId = tokenId, !.amount = amount]
    ELSE [NoCall EXCEPT !.op = op, !.err = err]

\* ------------------------------------------------------------ ERC-20 shares
RECURSIVE SumOver(_, _)
SumOver(f, S) ==
    IF S = {} THEN 0
    ELSE LET x == CHOOSE y \in S : TRUE IN f[x] + SumOver(f, S \ {x})

totalSupply == SumOver(balances, LPs)

\* ------------------------------------------------------- ERC-4626 views
TotalAssetsPanics == idle + totalActiveLoans < accumulatedFees

\* assets that still count the accumulated protocol fees
totalAssets_FeesIncluded == idle + totalActiveLoans

totalAssets == idle + totalActiveLoans - accumulatedFees

AvailableLiquidityPanics == idle < accumulatedFees

\* liquidity that counts the fee reserve as spendable
availableLiquidity_WithFees == idle

availableLiquidity == idle - accumulatedFees

\* a conversion to shares that rounds up
convertToShares_RoundsUp(assets) ==
    IF totalSupply = 0 THEN assets
    ELSE (assets * totalSupply + totalAssets - 1) \div totalAssets

\* a conversion that starts the empty pool at two shares per asset
convertToShares_InitialRate(assets) ==
    IF totalSupply = 0 THEN 2 * assets ELSE (assets * totalSupply) \div totalAssets

ConvertToSharesPanics ==
    totalSupply # 0 /\ (TotalAssetsPanics \/ totalAssets = 0)
convertToShares(assets) ==
    IF totalSupply = 0 THEN assets ELSE (assets * totalSupply) \div totalAssets

ConvertToAssetsPanics == totalSupply # 0 /\ TotalAssetsPanics
convertToAssets(shares) ==
    IF totalSupply = 0 THEN shares ELSE (shares * totalAssets) \div totalSupply

previewDeposit(assets) == convertToShares(assets)

\* a mint preview that rounds the assets to pay down
previewMint_RoundsDown(shares) ==
    IF totalSupply = 0 THEN shares
    ELSE (shares * totalAssets) \div totalSupply

previewMint(shares) ==
    IF totalSupply = 0 THEN shares
    ELSE (shares * totalAssets + totalSupply - 1) \div totalSupply

\* a withdrawal preview that rounds the shares to burn down
previewWithdraw_RoundsDown(assets) ==
    IF totalSupply = 0 THEN assets
    ELSE (assets * totalSupply) \div totalAssets

previewWithdraw(assets) ==
    IF totalSupply = 0 THEN assets
    ELSE (assets * totalSupply + totalAssets - 1) \div totalAssets

previewRedeem(shares) == convertToAssets(shares)

\* maxWithdraw and maxRedeem revert when the fee reserve exceeds the balance
\* or totalAssets underflows
MaxWithdrawPanics == AvailableLiquidityPanics \/ ConvertToAssetsPanics

\* a limit that is the owner's entitlement, whatever is idle
maxWithdraw_IgnoresLiquidity(owner) == convertToAssets(balances[owner])

maxWithdraw(owner) ==
    LET ownerAssets == convertToAssets(balances[owner])
    IN IF availableLiquidity < ownerAssets THEN availableLiquidity ELSE ownerAssets

MaxRedeemPanics(owner) ==
    \/ MaxWithdrawPanics
    \/ convertToAssets(balances[owner]) > availableLiquidity /\ ConvertToSharesPanics

maxRedeem(owner) ==
    IF convertToAssets(balances[owner]) <= availableLiquidity THEN balances[owner]
    ELSE convertToShares(availableLiquidity)

\* ------------------------------------------------------------------ Init
Init ==
    /\ idle = 0
    /\ totalActiveLoans = 0
    /\ accumulatedFees = 0
    /\ balances = [a \in LPs |-> 0]
    /\ allowances = [a \in LPs |-> [b \in LPs |-> 0]]
    /\ usedNonces = {}
    /\ loans = [t \in TokenIds |-> NoLoan]
    /\ maxUtilizationBps = DefaultMaxUtilizationBps
    /\ protocolFeeBps = DefaultProtocolFeeBps
    /\ oracle = OracleKey
    /\ invoiceNFT = ZeroAddress
    /\ identitySBT = ZeroAddress
    /\ nftOwner = Owner
    /\ nftOracle = OracleKey
    /\ nftTokenIdCounter = 0
    /\ nftOwners = [t \in TokenIds |-> ZeroAddress]
    /\ invoices = [t \in TokenIds |-> NoInvoice]
    /\ documentHashToTokenId = [h \in Hashes |-> 0]
    /\ sbtTokenIdCounter = 0
    /\ sbtOwners = [t \in SbtIds |-> ZeroAddress]
    /\ addressToTokenId = [b \in Businesses |-> 0]
    /\ businessActive = [t \in SbtIds |-> FALSE]
    /\ isBlacklisted = [b \in Businesses |-> FALSE]
    /\ now = 0
    /\ last = NoCall
    /\ transactions = {}
    /\ lpTotals = NoProvider
    /\ applied = [h \in TxHashes |-> 0]
    /\ processedTxHashes = {}
    /\ handlers = [s \in HandlerSlots |-> NoHandler]

\* ------------------------------------------------------------ vault calls
\* What a call of the asset's transfer or transferFrom can do. The pool takes
\* any IERC20 (the constructor's _asset) and never reads the returned bool:
\* "ok" moves the tokens and returns true, "reverts" reverts the whole call,
\* "false" moves nothing and returns false.
TransferOutcomes == {"ok", "reverts", "false"}

\* the tokens that arrive at the pool in a transferFrom(msg.sender, pool, amount)
Received(amount, transfer) == IF transfer = "ok" THEN amount ELSE 0

DepositErr(assets, receiver, transfer) ==
    IF assets = 0 THEN "ZeroAmount"
    ELSE IF receiver = ZeroAddress THEN "ZeroAddress"
    ELSE IF ConvertToSharesPanics THEN "Panic"
    ELSE IF transfer = "reverts" THEN "TransferFailed"
    ELSE "ok"

\* deposit, explored while the pool holds at most `cap`
depositUpTo(cap, caller, assets, receiver, transfer) ==
    LET err == DepositErr(assets, receiver, transfer)
        shares == previewDeposit(assets)
    IN /\ idle + totalActiveLoans + assets <= cap
       /\ err = "ok" => totalSupply + shares <= cap
       /\ UNCHANGED listenerVars
       /\ last' = Call("deposit", err, caller)
       /\ IF err = "ok"
          THEN /\ idle' = idle + Received(assets, transfer)
               /\ balances' = [balances EXCEPT ![receiver] = @ + shares]
          ELSE UNCHANGED <<idle, balances>>
       /\ UNCHANGED <<totalActiveLoans, accumulatedFees, allowances, usedNonces,
                      loans, maxUtilizationBps, protocolFeeBps, oracle,
                      invoiceNFT, identitySBT, nftVars, sbtVars, now>>

deposit(caller, assets, receiver, transfer) ==
    depositUpTo(MaxPool, caller, assets, receiver, transfer)

MintErr(shares, receiver, transfer) ==
    IF shares = 0 THEN "ZeroAmount"
    ELSE IF receiver = ZeroAddress THEN "ZeroAddress"
    ELSE IF ConvertToAssetsPanics THEN "Panic"
    ELSE IF transfer = "reverts" THEN "TransferFailed"
    ELSE "ok"

mint(caller, shares, receiver, transfer) ==
    LET err == MintErr(shares, receiver, transfer)
        assets == previewMint(shares)
    IN /\ ~ConvertToAssetsPanics => idle + totalActiveLoans + assets <= MaxPool
       /\ totalSupply + shares <= MaxPool
       /\ UNCHANGED listenerVars
       /\ last' = Call("mint", err, caller)
       /\ IF err = "ok"
          THEN /\ idle' = idle + Received(assets, transfer)
               /\ balances' = [balances EXCEPT ![receiver] = @ + shares]
          ELSE UNCHANGED <<idle, balances>>
       /\ UNCHANGED <<totalActiveLoans, accumulatedFees, allowances, usedNonces,
                      loans, maxUtilizationBps, protocolFeeBps, oracle,
                      invoiceNFT, identitySBT, nftVars, sbtVars, now>>

\* the allowance check shared by withdraw and redeem
SpendErr(caller, owner, shares, message) ==
    IF caller # owner /\ allowances[owner][caller] # UintMax
          /\ allowances[owner][caller] < shares
    THEN message
    ELSE IF balances[owner] < shares THEN "ERC20: burn amount exceeds balance"
    ELSE "ok"

SpendAllowance(caller, owner, shares) ==
    IF caller # owner /\ allowances[owner][caller] # UintMax
    THEN [allowances EXCEPT ![owner][caller] = @ - shares]
    ELSE allowances

WithdrawErr(caller, assets, receiver, owner) ==
    IF assets = 0 THEN "ZeroAmount"
    ELSE IF receiver = ZeroAddress THEN "ZeroAddress"
    ELSE IF AvailableLiquidityPanics THEN "Panic"
    ELSE IF assets > availableLiquidity THEN "InsufficientLiquidity"
    ELSE IF ConvertToSharesPanics THEN "Panic"
    ELSE SpendErr(caller, owner, previewWithdraw(assets),
                  "ERC4626: withdraw exceeds allowance")

withdraw(caller, assets, receiver, owner) ==
    LET err == WithdrawErr(caller, assets, receiver, owner)
        shares == previewWithdraw(assets)
    IN /\ UNCHANGED listenerVars
       /\ last' = Call("withdraw", err, caller)
       /\ IF err = "ok"
          THEN /\ allowances' = SpendAllowance(caller, owner, shares)
               /\ balances' = [balances EXCEPT ![owner] = @ - shares]
               /\ idle' = idle - assets
          ELSE UNCHANGED <<idle, balances, allowances>>
       /\ UNCHANGED <<totalActiveLoans, accumulatedFees, usedNonces,
                      loans, maxUtilizationBps, protocolFeeBps, oracle,
                      invoiceNFT, identitySBT, nftVars, sbtVars, now>>

RedeemErr(caller, shares, receiver, owner) ==
    IF shares = 0 THEN "ZeroAmount"
    ELSE IF receiver = ZeroAddress THEN "ZeroAddress"
    ELSE IF ConvertToAssetsPanics THEN "Panic"
    ELSE IF AvailableLiquidityPanics THEN "Panic"
    ELSE IF previewRedeem(shares) > availableLiquidity THEN "InsufficientLiquidity"
    ELSE SpendErr(caller, owner, shares, "ERC4626: redeem exceeds allowance")

redeem(caller, shares, receiver, owner) ==
    LET err == RedeemErr(caller, shares, receiver, owner)
        assets == previewRedeem(shares)
    IN /\ UNCHANGED listenerVars
       /\ last' = Call("redeem", err, caller)
       /\ IF err = "ok"
          THEN /\ allowances' = SpendAllowance(caller, owner, shares)
               /\ balances' = [balances EXCEPT ![owner] = @ - shares]
               /\ idle' = idle - assets
          ELSE UNCHANGED <<idle, balances, allowances>>
       /\ UNCHANGED <<totalActiveLoans, accumulatedFees, usedNonces,
                      loans, maxUtilizationBps, protocolFeeBps, oracle,
                      invoiceNFT, identitySBT, nftVars, sbtVars, now>>

\* ERC20.approve on the share token
approve(owner, spender, amount) ==
    /\ UNCHANGED listenerVars
    /\ last' = Call("approve", "ok", owner)
    /\ allowances' = [allowances EXCEPT ![owner][spender] = amount]
    /\ UNCHANGED <<idle, totalActiveLoans, accumulatedFees, balances, usedNonces,
                   loans, maxUtilizationBps, protocolFeeBps, oracle,
                   invoiceNFT, identitySBT, nftVars, sbtVars, now>>


\* ---------------------------------------------------------- IdentitySBT
\* a verification that does not look at the credential's active flag
isVerifiedBusiness_IgnoresActive(wallet) ==
    IF isBlacklisted[wallet] THEN FALSE
    ELSE addressToTokenId[wallet] # 0

isVerifiedBusiness(wallet) ==
    IF isBlacklisted[wallet] THEN FALSE
    ELSE IF addressToTokenId[wallet] = 0 THEN FALSE
    ELSE businessActive[addressToTokenId[wallet]]

SbtMintErr(caller, wallet, riskTier) ==
    IF caller # SbtAdmin THEN "Unauthorized"
    ELSE IF isBlacklisted[wallet] THEN "Blacklisted"
    ELSE IF addressToTokenId[wallet] # 0 THEN "AlreadyVerified"
    ELSE IF ~(riskTier >= 1 /\ riskTier <= 3) THEN "Invalid risk tier"
    ELSE "ok"

sbtMint(caller, wallet, riskTier) ==
    LET err == SbtMintErr(caller, wallet, riskTier)
        tokenId == sbtTokenIdCounter + 1
    IN /\ err = "ok" => sbtTokenIdCounter < MaxSbt
       /\ UNCHANGED listenerVars
       /\ last' = Call("sbtMint", err, caller)
       /\ IF err = "ok"
          THEN /\ sbtTokenIdCounter' = tokenId
               /\ sbtOwners' = [sbtOwners EXCEPT ![tokenId] = wallet]
               /\ addressToTokenId' = [addressToTokenId EXCEPT ![wallet] = tokenId]
               /\ businessActive' = [businessActive EXCEPT ![tokenId] = TRUE]
          ELSE UNCHANGED <<sbtTokenIdCounter, sbtOwners, addressToTokenId, businessActive>>
       /\ UNCHANGED <<poolVars, nftVars, isBlacklisted, now>>

SbtTokenErr(caller, tokenId) ==
    IF caller # SbtAdmin THEN "Unauthorized"
    ELSE IF sbtOwners[tokenId] = ZeroAddress THEN "TokenDoesNotExist"
    ELSE "ok"

sbtBurn(caller, tokenId) ==
    LET err == SbtTokenErr(caller, tokenId)
        owner == sbtOwners[tokenId]
    IN /\ UNCHANGED listenerVars
       /\ last' = Call("sbtBurn", err, caller)
       /\ IF err = "ok"
          THEN /\ addressToTokenId' = [addressToTokenId EXCEPT ![owner] = 0]
               /\ sbtOwners' = [sbtOwners EXCEPT ![tokenId] = ZeroAddress]
               /\ businessActive' = [businessActive EXCEPT ![tokenId] = FALSE]
          ELSE UNCHANGED <<sbtOwners, addressToTokenId, businessActive>>
       /\ UNCHANGED <<poolVars, nftVars, sbtTokenIdCounter, isBlacklisted, now>>

deactivate(caller, tokenId) ==
    LET err == SbtTokenErr(caller, tokenId)
    IN /\ UNCHANGED listenerVars
       /\ last' = Call("deactivate", err, caller)
       /\ IF err = "ok"
          THEN businessActive' = [businessActive EXCEPT ![tokenId] = FALSE]
          ELSE UNCHANGED businessActive
       /\ UNCHANGED <<poolVars, nftVars, sbtTokenIdCounter, sbtOwners,
                      addressToTokenId, isBlacklisted, now>>

reactivate(caller, tokenId) ==
    LET err == SbtTokenErr(caller, tokenId)
    IN /\ UNCHANGED listenerVars
       /\ last' = Call("reactivate", err, caller)
       /\ IF err = "ok"
          THEN businessActive' = [businessActive EXCEPT ![tokenId] = TRUE]
          ELSE UNCHANGED businessActive
       /\ UNCHANGED <<poolVars, nftVars, sbtTokenIdCounter, sbtOwners,
                      addressToTokenId, isBlacklisted, now>>

blacklist(caller, wallet) ==
    LET err == IF caller # SbtAdmin THEN "Unauthorized" ELSE "ok"
        tokenId == addressToTokenId[wallet]
    IN /\ UNCHANGED listenerVars
       /\ last' = Call("blacklist", err, caller)
       /\ IF err = "ok"
          THEN /\ isBlacklisted' = [isBlacklisted EXCEPT ![wallet] = TRUE]
               /\ IF tokenId # 0
                  THEN /\ addressToTokenId' = [addressToTokenId EXCEPT ![wallet] = 0]
                       /\ sbtOwners' = [sbtOwners EXCEPT ![tokenId] = ZeroAddress]
                       /\ businessActive' = [businessActive EXCEPT ![tokenId] = FALSE]
                  ELSE UNCHANGED <<sbtOwners, addressToTokenId, businessActive>>
          ELSE UNCHANGED <<sbtOwners, addressToTokenId, businessActive, isBlacklisted>>
       /\ UNCHANGED <<poolVars, nftVars, sbtTokenIdCounter, now>>

\* ------------------------------------------------------------ InvoiceNFT
NftAuthorized(msgSender) == msgSender = nftOwner \/ msgSender = nftOracle

\* a mint that does not look the fingerprint up
NftMintErr_NoFingerprintCheck(msgSender, to, documentHash, publicMetadataURI, amount, dueDate, riskScore) ==
    IF ~NftAuthorized(msgSender) THEN "Unauthorized"
    ELSE IF to = ZeroAddress THEN "ZeroAddress"
    ELSE IF documentHash = 0 THEN "ZeroAddress"
    ELSE IF publicMetadataURI = "" THEN "EmptyMetadataURI"
    ELSE IF amount = 0 THEN "ZeroAmount"
    ELSE IF dueDate <= now THEN "InvalidDueDate"
    ELSE IF riskScore > 100 THEN "InvalidRiskScore"
    ELSE "ok"

NftMintErr(msgSender, to, documentHash, publicMetadataURI, amount, dueDate, riskScore) ==
    IF ~NftAuthorized(msgSender) THEN "Unauthorized"
    ELSE IF to = ZeroAddress THEN "ZeroAddress"
    ELSE IF documentHash = 0 THEN "ZeroAddress"
    ELSE IF publicMetadataURI = "" THEN "EmptyMetadataURI"
    ELSE IF amount = 0 THEN "ZeroAmount"
    ELSE IF dueDate <= now THEN "InvalidDueDate"
    ELSE IF riskScore > 100 THEN "InvalidRiskScore"
    ELSE IF documentHashToTokenId[documentHash] # 0 THEN "DocumentAlreadyFinanced"
    ELSE "ok"

NftMintedOwners(to) == [nftOwners EXCEPT ![nftTokenIdCounter + 1] = to]
NftMintedInvoices(documentHash, amount, dueDate, riskScore) ==
    [invoices EXCEPT ![nftTokenIdCounter + 1] =
        [documentHash |-> documentHash, amount |-> amount, dueDate |-> dueDate,
         riskScore |-> riskScore, isRepaid |-> FALSE, fundedAt |-> now]]
NftMintedHashes(documentHash) ==
    [documentHashToTokenId EXCEPT ![documentHash] = nftTokenIdCounter + 1]

NftMarkRepaidErr(msgSender, tokenId) ==
    IF ~NftAuthorized(msgSender) THEN "Unauthorized"
    ELSE IF nftOwners[tokenId] = ZeroAddress THEN "TokenDoesNotExist"
    ELSE IF invoices[tokenId].isRepaid THEN "AlreadyRepaid"
    ELSE "ok"

NftBurnErr(msgSender, tokenId) ==
    IF ~NftAuthorized(msgSender) THEN "Unauthorized"
    ELSE IF nftOwners[tokenId] = ZeroAddress THEN "TokenDoesNotExist"
    ELSE IF ~invoices[tokenId].isRepaid THEN "Unauthorized"
    ELSE "ok"

\* a burn that leaves the fingerprint entry in place
NftBurnedHashes_EntryKept(tokenId) == documentHashToTokenId

NftBurnedHashes(tokenId) ==
    [documentHashToTokenId EXCEPT ![invoices[tokenId].documentHash] = 0]

isDocumentFinanced(documentHash) == documentHashToTokenId[documentHash] # 0

\* InvoiceNFT.mint, markRepaid and burn called on the NFT contract itself
nftMint(msgSender, to, documentHash, publicMetadataURI, amount, dueDate, riskScore) ==
    LET err == NftMintErr(msgSender, to, documentHash, publicMetadataURI, amount, dueDate, riskScore)
    IN /\ nftTokenIdCounter < MaxLoans
       /\ UNCHANGED listenerVars
       /\ last' = LoanCall("InvoiceNFT.mint", err, msgSender, nftTokenIdCounter + 1)
       /\ IF err = "ok"
          THEN /\ nftTokenIdCounter' = nftTokenIdCounter + 1
               /\ nftOwners' = NftMintedOwners(to)
               /\ invoices' = NftMintedInvoices(documentHash, amount, dueDate, riskScore)
               /\ documentHashToTokenId' = NftMintedHashes(documentHash)
          ELSE UNCHANGED <<nftTokenIdCounter, nftOwners, invoices, documentHashToTokenId>>
       /\ UNCHANGED <<poolVars, nftOwner, nftOracle, sbtVars, now>>

markRepaid(msgSender, tokenId) ==
    LET err == NftMarkRepaidErr(msgSender, tokenId)
    IN /\ UNCHANGED listenerVars
       /\ last' = LoanCall("InvoiceNFT.markRepaid", err, msgSender, tokenId)
       /\ invoices' = IF err = "ok" THEN [invoices EXCEPT ![tokenId].isRepaid = TRUE]
                      ELSE invoices
       /\ UNCHANGED <<poolVars, nftOwner, nftOracle, nftTokenIdCounter, nftOwners,
                      documentHashToTokenId, sbtVars, now>>

burn(msgSender, tokenId) ==
    LET err == NftBurnErr(msgSender, tokenId)
    IN /\ UNCHANGED listenerVars
       /\ last' = LoanCall("InvoiceNFT.burn", err, msgSender, tokenId)
       /\ IF err = "ok"
          THEN /\ nftOwners' = [nftOwners EXCEPT ![tokenId] = ZeroAddress]
               /\ invoices' = [invoices EXCEPT ![tokenId] = NoInvoice]
               /\ documentHashToTokenId' = NftBurnedHashes(tokenId)
          ELSE UNCHANGED <<nftOwners, invoices, documentHashToTokenId>>
       /\ UNCHANGED <<poolVars, nftOwner, nftOracle, nftTokenIdCounter, sbtVars, now>>

\* InvoiceNFT.setLiquidityPool: hands the NFT contract over to the pool
setLiquidityPool(caller) ==
    LET err == IF caller # nftOwner THEN "Unauthorized" ELSE "ok"
    IN /\ UNCHANGED listenerVars
       /\ last' = Call("setLiquidityPool", err, caller)
       /\ nftOwner' = IF err = "ok" THEN Pool ELSE nftOwner
       /\ UNCHANGED <<poolVars, nftOracle, nftTokenIdCounter, nftOwners, invoices,
                      documentHashToTokenId, sbtVars, now>>


\* ------------------------------------------- loan authorization (backend)
\* a rating whose thresholds are exclusive
riskScoreToRating_Exclusive(score) ==
    IF score < 10 THEN "AAA"
    ELSE IF score < 20 THEN "AA"
    ELSE IF score < 35 THEN "A"
    ELSE IF score < 50 THEN "BBB"
    ELSE IF score < 65 THEN "BB"
    ELSE IF score < 80 THEN "B"
    ELSE "CCC"

riskScoreToRating(score) ==
    IF score <= 10 THEN "AAA"
    ELSE IF score <= 20 THEN "AA"
    ELSE IF score <= 35 THEN "A"
    ELSE IF score <= 50 THEN "BBB"
    ELSE IF score <= 65 THEN "BB"
    ELSE IF score <= 80 THEN "B"
    ELSE "CCC"

YIELD_RATES ==
    [AAA |-> 200, AA |-> 300, A |-> 400, BBB |-> 600, BB |-> 800, B |-> 1000, CCC |-> 1500]

calculateExpectedYield(amount, riskScore) ==
    LET rating == riskScoreToRating(riskScore)
        yieldBps == YIELD_RATES[rating]
    IN [yieldBps |-> yieldBps, yieldAmount |-> (amount * yieldBps) \div BPS, rating |-> rating]

\* keccak256 over the packed encoding of fixed-width fields is injective, so a
\* hash is modelled by the tuple of the packed fields in their order.
\* The backend: ethers.solidityPackedKeccak256(types, values)
solidityPackedKeccak256(documentHash, amount, dueDate, sellerAddress, riskScore, yieldBps, nonce, poolAddress) ==
    <<documentHash, amount, dueDate, sellerAddress, riskScore, yieldBps, nonce, poolAddress>>

\* The pool: keccak256(abi.encodePacked(params..., address(this)))
messageHash(params, this) ==
    <<params.documentHash, params.amount, params.dueDate, params.seller, params.riskScore,
      params.expectedYieldBps, params.nonce, this>>

toEthSignedMessageHash(hash) == <<"Ethereum Signed Message:32", hash>>

\* Wallet.signMessage: an ECDSA signature binds the signing key to the digest
signMessage(key, hash) == [signer |-> key, digest |-> toEthSignedMessageHash(hash)]

\* a recovery that returns the signing key whatever was signed
recoverSigner_AnyDigest(digest, signature) == signature.signer

\* ecrecover: the signing key when the digest is the signed one, otherwise an
\* address unrelated to any key in use
recoverSigner(digest, signature) ==
    IF signature.digest = digest THEN signature.signer ELSE Unrelated

\* LiquidityPoolService.generateLoanSignature, run with private key `key` and
\* LIQUIDITY_POOL_ADDRESS = poolAddress: the yield lookup, the hash, the
\* signature and the returned parameters.  Its input validation (risk score
\* range, due date in the future when signing) is left out: the key also signs
\* outside the service (scripts/test-privacy-flow), and an authorization is
\* submitted some time after it was signed.  The nonce, random in the service,
\* is an input here.
generateLoanSignature(key, poolAddress, documentHash, amount, dueDate, seller, riskScore, publicMetadataURI, nonce) ==
    LET yieldBps == calculateExpectedYield(amount, riskScore).yieldBps
    IN [documentHash |-> documentHash, publicMetadataURI |-> publicMetadataURI,
        amount |-> amount, dueDate |-> dueDate, seller |-> seller,
        riskScore |-> riskScore, expectedYieldBps |-> yieldBps, nonce |-> nonce,
        signature |-> signMessage(key, solidityPackedKeccak256(documentHash, amount, dueDate,
                                      seller, riskScore, yieldBps, nonce, poolAddress))]

\* ------------------------------------------------------------- fundLoan
\* a pool that lends up to all it manages
maxLoanable_Uncapped == totalAssets

maxLoanable == (totalAssets * maxUtilizationBps) \div BPS

\* a fundLoan that looks at the due date before the utilization cap and the
\* liquidity
FundLoanErr_DueDateFirst(caller, params) ==
    IF identitySBT = ZeroAddress THEN "ZeroAddress"
    ELSE IF ~isVerifiedBusiness(caller) THEN "NotVerifiedBusiness"
    ELSE IF params.nonce \in usedNonces THEN "NonceAlreadyUsed"
    ELSE IF recoverSigner(toEthSignedMessageHash(messageHash(params, Pool)),
                          params.signature) # oracle THEN "InvalidSignature"
    ELSE IF params.dueDate <= now THEN "InvoiceExpired"
    ELSE IF AvailableLiquidityPanics THEN "Panic"
    ELSE IF totalActiveLoans + params.amount > maxLoanable THEN "ExceedsMaxUtilization"
    ELSE IF params.amount > availableLiquidity THEN "InsufficientLiquidity"
    ELSE IF invoiceNFT = ZeroAddress THEN "CallToNonContract"
    ELSE LET nftErr == NftMintErr(Pool, Pool, params.documentHash, params.publicMetadataURI,
                                  params.amount, params.dueDate, params.riskScore)
         IN IF nftErr # "ok" THEN nftErr
            ELSE IF loans[nftTokenIdCounter + 1].isActive THEN "LoanAlreadyExists"
            ELSE "ok"

FundLoanErr(caller, params) ==
    IF identitySBT = ZeroAddress THEN "ZeroAddress"
    ELSE IF ~isVerifiedBusiness(caller) THEN "NotVerifiedBusiness"
    ELSE IF params.nonce \in usedNonces THEN "NonceAlreadyUsed"
    ELSE IF recoverSigner(toEthSignedMessageHash(messageHash(params, Pool)),
                          params.signature) # oracle THEN "InvalidSignature"
    ELSE IF AvailableLiquidityPanics THEN "Panic"
    ELSE IF totalActiveLoans + params.amount > maxLoanable THEN "ExceedsMaxUtilization"
    ELSE IF params.amount > availableLiquidity THEN "InsufficientLiquidity"
    ELSE IF params.dueDate <= now THEN "InvoiceExpired"
    ELSE IF invoiceNFT = ZeroAddress THEN "CallToNonContract"
    ELSE LET nftErr == NftMintErr(Pool, Pool, params.documentHash, params.publicMetadataURI,
                                  params.amount, params.dueDate, params.riskScore)
         IN IF nftErr # "ok" THEN nftErr
            ELSE IF loans[nftTokenIdCounter + 1].isActive THEN "LoanAlreadyExists"
            ELSE "ok"

\* a pool that never records a nonce
ConsumeNonce_Never(nonce, err) == usedNonces

\* a pool whose nonce mark survives the revert of the steps after it
ConsumeNonce_SurvivesRevert(nonce, err) ==
    IF err \in {"ZeroAddress", "NotVerifiedBusiness", "NonceAlreadyUsed"}
    THEN usedNonces ELSE usedNonces \cup {nonce}

\* usedNonces[nonce] = true is written right after the nonce check; a revert
\* in any later step undoes it with the rest of the transaction
ConsumeNonce(nonce, err) ==
    IF err = "ok" THEN usedNonces \cup {nonce} ELSE usedNonces

fundLoan(caller, params, trusted, tamper) ==
    LET err == FundLoanErr(caller, params)
        tokenId == nftTokenIdCounter + 1
    IN /\ nftTokenIdCounter < MaxLoans
       /\ UNCHANGED listenerVars
       /\ last' = FundCall(err, caller, params.nonce, trusted, tamper,
                           IF err = "ok" THEN tokenId ELSE 0)
       /\ usedNonces' = ConsumeNonce(params.nonce, err)
       /\ IF err = "ok"
          THEN /\ nftTokenIdCounter' = tokenId
               /\ nftOwners' = NftMintedOwners(Pool)
               /\ invoices' = NftMintedInvoices(params.documentHash, params.amount,
                                                params.dueDate, params.riskScore)
               /\ documentHashToTokenId' = NftMintedHashes(params.documentHash)
               /\ loans' = [loans EXCEPT ![tokenId] =
                              [principal |-> params.amount,
                               expectedYield |-> (params.amount * params.expectedYieldBps) \div BPS,
                               fundedAt |-> now,
                               isActive |-> TRUE,
                               documentHash |-> params.documentHash]]
               /\ totalActiveLoans' = totalActiveLoans + params.amount
               /\ idle' = idle - params.amount
          ELSE UNCHANGED <<nftTokenIdCounter, nftOwners, invoices,
                           documentHashToTokenId, loans, totalActiveLoans, idle>>
       /\ UNCHANGED <<accumulatedFees, balances, allowances, maxUtilizationBps,
                      protocolFeeBps, oracle, invoiceNFT, identitySBT, nftOwner,
                      nftOracle, sbtVars, now>>

\* what a caller submits: the authorization as issued, or with one field
\* changed after signing ("pool": it was issued for another pool)
OtherHash(h) == IF h = 1 THEN 2 ELSE 1
OtherAmount(a) == IF a = LoanSmall THEN LoanBoundary ELSE LoanSmall
OtherNonce(n) == (n % MaxNonce) + 1
TamperKinds == {"documentHash", "amount", "dueDate", "seller", "riskScore",
                "expectedYieldBps", "nonce", "pool"}

Submitted(auth, tamper) ==
    IF tamper = "documentHash" THEN [auth EXCEPT !.documentHash = OtherHash(@)]
    ELSE IF tamper = "amount" THEN [auth EXCEPT !.amount = OtherAmount(@)]
    ELSE IF tamper = "dueDate" THEN [auth EXCEPT !.dueDate = @ + 1]
    ELSE IF tamper = "seller" THEN [auth EXCEPT !.seller = OtherSeller]
    ELSE IF tamper = "riskScore" THEN [auth EXCEPT !.riskScore = @ + 1]
    ELSE IF tamper = "expectedYieldBps" THEN [auth EXCEPT !.expectedYieldBps = @ + 100]
    ELSE IF tamper = "nonce" THEN [auth EXCEPT !.nonce = OtherNonce(@)]
    ELSE auth

Authorization(key, documentHash, amount, dueDate, nonce, tamper) ==
    Submitted(generateLoanSignature(key, IF tamper = "pool" THEN OtherPool ELSE Pool,
                                    documentHash, amount, dueDate, Seller, 25, "ipfs", nonce),
              tamper)

OtherSigner(key) == IF key = OracleKey THEN OtherKey ELSE OracleKey

\* fundLoan with an authorization signed by the configured oracle (trusted)
\* or by another key, over the submitted fields
FundLoanIssued(callers, hashes, amounts, dueDates) ==
    \E caller \in callers, h \in hashes, a \in amounts, d \in dueDates,
       n \in Nonces, trusted \in BOOLEAN :
        fundLoan(caller,
                 Authorization(IF trusted THEN oracle ELSE OtherSigner(oracle),
                               h, a, d, n, "none"),
                 trusted, "none")

\* fundLoan with an authorization of the oracle in which one field differs
\* from what was signed
FundLoanTampered(callers) ==
    \E caller \in callers, n \in Nonces, tamper \in TamperKinds :
        fundLoan(caller, Authorization(oracle, 1, LoanBoundary, MaxTime + 1, n, tamper),
                 TRUE, tamper)

\* ------------------------------------------------------------ repayment
\* a repayment check that does not look at the loan's isActive flag
RepayLoanErr_NoActiveCheck(caller, tokenId) ==
    IF caller # oracle THEN "Unauthorized"
    ELSE IF totalActiveLoans < loans[tokenId].principal THEN "Panic"
    ELSE IF invoiceNFT = ZeroAddress THEN "CallToNonContract"
    ELSE NftMarkRepaidErr(Pool, tokenId)

RepayLoanErr(caller, tokenId) ==
    IF caller # oracle THEN "Unauthorized"
    ELSE IF ~loans[tokenId].isActive THEN "LoanNotActive"
    ELSE IF totalActiveLoans < loans[tokenId].principal THEN "Panic"
    ELSE IF invoiceNFT = ZeroAddress THEN "CallToNonContract"
    ELSE NftMarkRepaidErr(Pool, tokenId)

\* a repayment that leaves the loan's principal in totalActiveLoans
repayLoan_PrincipalKept(caller, tokenId, actualYield) ==
    LET err == RepayLoanErr(caller, tokenId)
        fee == (actualYield * protocolFeeBps) \div BPS
    IN /\ UNCHANGED listenerVars
       /\ last' = AmountCall("repayLoan", err, caller, tokenId, actualYield)
       /\ IF err = "ok"
          THEN /\ loans' = [loans EXCEPT ![tokenId].isActive = FALSE]
               /\ accumulatedFees' = accumulatedFees + fee
               /\ invoices' = [invoices EXCEPT ![tokenId].isRepaid = TRUE]
          ELSE UNCHANGED <<loans, accumulatedFees, invoices>>
       /\ UNCHANGED <<idle, totalActiveLoans, balances, allowances, usedNonces,
                      maxUtilizationBps, protocolFeeBps, oracle, invoiceNFT, identitySBT,
                      nftOwner, nftOracle, nftTokenIdCounter, nftOwners,
                      documentHashToTokenId, sbtVars, now>>

\* a repayment that books the whole yield as protocol fee
repayLoan_YieldToFees(caller, tokenId, actualYield) ==
    LET err == RepayLoanErr(caller, tokenId)
        principal == loans[tokenId].principal
    IN /\ UNCHANGED listenerVars
       /\ last' = AmountCall("repayLoan", err, caller, tokenId, actualYield)
       /\ IF err = "ok"
          THEN /\ loans' = [loans EXCEPT ![tokenId].isActive = FALSE]
               /\ totalActiveLoans' = totalActiveLoans - principal
               /\ accumulatedFees' = accumulatedFees + actualYield
               /\ invoices' = [invoices EXCEPT ![tokenId].isRepaid = TRUE]
          ELSE UNCHANGED <<loans, totalActiveLoans, accumulatedFees, invoices>>
       /\ UNCHANGED <<idle, balances, allowances, usedNonces, maxUtilizationBps,
                      protocolFeeBps, oracle, invoiceNFT, identitySBT, nftOwner, nftOracle,
                      nftTokenIdCounter, nftOwners, documentHashToTokenId, sbtVars, now>>

repayLoan(caller, tokenId, actualYield) ==
    LET err == RepayLoanErr(caller, tokenId)
        principal == loans[tokenId].principal
        fee == (actualYield * protocolFeeBps) \div BPS
    IN /\ UNCHANGED listenerVars
       /\ last' = AmountCall("repayLoan", err, caller, tokenId, actualYield)
       /\ IF err = "ok"
          THEN /\ loans' = [loans EXCEPT ![tokenId].isActive = FALSE]
               /\ totalActiveLoans' = totalActiveLoans - principal
               /\ accumulatedFees' = accumulatedFees + fee
               /\ invoices' = [invoices EXCEPT ![tokenId].isRepaid = TRUE]
          ELSE UNCHANGED <<loans, totalActiveLoans, accumulatedFees, invoices>>
       /\ UNCHANGED <<idle, balances, allowances, usedNonces, maxUtilizationBps,
                      protocolFeeBps, oracle, invoiceNFT, identitySBT, nftOwner, nftOracle,
                      nftTokenIdCounter, nftOwners, documentHashToTokenId, sbtVars, now>>

\* depositRepayment, explored while the pool's balance stays at most `cap`
depositRepaymentUpTo(cap, caller, amount, transfer) ==
    LET err == IF caller # oracle THEN "Unauthorized"
               ELSE IF transfer = "reverts" THEN "TransferFailed"
               ELSE "ok"
    IN /\ idle + amount <= cap
       /\ UNCHANGED listenerVars
       /\ last' = AmountCall("depositRepayment", err, caller, 0, amount)
       /\ idle' = IF err = "ok" THEN idle + Received(amount, transfer) ELSE idle
       /\ UNCHANGED <<totalActiveLoans, accumulatedFees, balances, allowances, usedNonces,
                      loans, maxUtilizationBps, protocolFeeBps, oracle, invoiceNFT,
                      identitySBT, nftVars, sbtVars, now>>

depositRepayment(caller, amount, transfer) ==
    depositRepaymentUpTo(MaxPool, caller, amount, transfer)

\* a burn that looks at the caller only, not at the loan or the invoice
BurnRepaidInvoiceErr_CallerOnly(caller, tokenId) ==
    IF caller # oracle THEN "Unauthorized" ELSE "ok"

BurnRepaidInvoiceErr(caller, tokenId) ==
    IF caller # oracle THEN "Unauthorized"
    ELSE IF loans[tokenId].isActive THEN "LoanNotActive"
    ELSE IF invoiceNFT = ZeroAddress THEN "CallToNonContract"
    ELSE NftBurnErr(Pool, tokenId)

burnRepaidInvoice(caller, tokenId) ==
    LET err == BurnRepaidInvoiceErr(caller, tokenId)
    IN /\ UNCHANGED listenerVars
       /\ last' = LoanCall("burnRepaidInvoice", err, caller, tokenId)
       /\ IF err = "ok"
          THEN /\ nftOwners' = [nftOwners EXCEPT ![tokenId] = ZeroAddress]
               /\ invoices' = [invoices EXCEPT ![tokenId] = NoInvoice]
               /\ documentHashToTokenId' = NftBurnedHashes(tokenId)
          ELSE UNCHANGED <<nftOwners, invoices, documentHashToTokenId>>
       /\ UNCHANGED <<poolVars, nftOwner, nftOracle, nftTokenIdCounter, sbtVars, now>>

\* ---------------------------------------------------------- pool admin
OnlyOwnerErr(caller) == IF caller # Owner THEN "Unauthorized" ELSE "ok"

setInvoiceNFT(caller) ==
    LET err == OnlyOwnerErr(caller)
    IN /\ UNCHANGED listenerVars
       /\ last' = Call("setInvoiceNFT", err, caller)
       /\ invoiceNFT' = IF err = "ok" THEN NFT ELSE invoiceNFT
       /\ UNCHANGED <<idle, totalActiveLoans, accumulatedFees, balances, allowances,
                      usedNonces, loans, maxUtilizationBps, protocolFeeBps, oracle,
                      identitySBT, nftVars, sbtVars, now>>

setIdentitySBT(caller) ==
    LET err == OnlyOwnerErr(caller)
    IN /\ UNCHANGED listenerVars
       /\ last' = Call("setIdentitySBT", err, caller)
       /\ identitySBT' = IF err = "ok" THEN SBT ELSE identitySBT
       /\ UNCHANGED <<idle, totalActiveLoans, accumulatedFees, balances, allowances,
                      usedNonces, loans, maxUtilizationBps, protocolFeeBps, oracle,
                      invoiceNFT, nftVars, sbtVars, now>>

setOracle(caller, newOracle) ==
    LET err == IF caller # Owner THEN "Unauthorized"
               ELSE IF newOracle = ZeroAddress THEN "ZeroAddress"
               ELSE "ok"
    IN /\ UNCHANGED listenerVars
       /\ last' = Call("setOracle", err, caller)
       /\ oracle' = IF err = "ok" THEN newOracle ELSE oracle
       /\ UNCHANGED <<idle, totalActiveLoans, accumulatedFees, balances, allowances,
                      usedNonces, loans, maxUtilizationBps, protocolFeeBps,
                      invoiceNFT, identitySBT, nftVars, sbtVars, now>>

setMaxUtilization(caller, bps) ==
    LET err == IF caller # Owner THEN "Unauthorized"
               ELSE IF ~(bps <= MaxUtilizationCeiling) THEN "Cannot exceed 100%"
               ELSE "ok"
    IN /\ UNCHANGED listenerVars
       /\ last' = Call("setMaxUtilization", err, caller)
       /\ maxUtilizationBps' = IF err = "ok" THEN bps ELSE maxUtilizationBps
       /\ UNCHANGED <<idle, totalActiveLoans, accumulatedFees, balances, allowances,
                      usedNonces, loans, protocolFeeBps, oracle,
                      invoiceNFT, identitySBT, nftVars, sbtVars, now>>

setProtocolFee(caller, bps) ==
    LET err == IF caller # Owner THEN "Unauthorized"
               ELSE IF ~(bps <= MaxProtocolFee) THEN "Cannot exceed 50%"
               ELSE "ok"
    IN /\ UNCHANGED listenerVars
       /\ last' = Call("setProtocolFee", err, caller)
       /\ protocolFeeBps' = IF err = "ok" THEN bps ELSE protocolFeeBps
       /\ UNCHANGED <<idle, totalActiveLoans, accumulatedFees, balances, allowances,
                      usedNonces, loans, maxUtilizationBps, oracle,
                      invoiceNFT, identitySBT, nftVars, sbtVars, now>>

\* a fee withdrawal that pays the fees out and keeps them on the books
withdrawFees_FeesKept(caller) ==
    LET err == IF caller # Owner THEN "Unauthorized"
               ELSE IF idle < accumulatedFees THEN "TransferFailed"
               ELSE "ok"
    IN /\ UNCHANGED listenerVars
       /\ last' = Call("withdrawFees", err, caller)
       /\ idle' = IF err = "ok" THEN idle - accumulatedFees ELSE idle
       /\ UNCHANGED <<totalActiveLoans, accumulatedFees, balances, allowances, usedNonces,
                      loans, maxUtilizationBps, protocolFeeBps, oracle,
                      invoiceNFT, identitySBT, nftVars, sbtVars, now>>

withdrawFees(caller) ==
    LET err == IF caller # Owner THEN "Unauthorized"
               ELSE IF idle < accumulatedFees THEN "TransferFailed"
               ELSE "ok"
    IN /\ UNCHANGED listenerVars
       /\ last' = Call("withdrawFees", err, caller)
       /\ IF err = "ok"
          THEN /\ idle' = idle - accumulatedFees
               /\ accumulatedFees' = 0
          ELSE UNCHANGED <<idle, accumulatedFees>>
       /\ UNCHANGED <<totalActiveLoans, balances, allowances, usedNonces, loans,
                      maxUtilizationBps, protocolFeeBps, oracle,
                      invoiceNFT, identitySBT, nftVars, sbtVars, now>>

\* block.timestamp advances between transactions
Tick ==
    /\ now < MaxTime
    /\ now' = now + 1
    /\ UNCHANGED listenerVars
    /\ last' = Call("tick", "ok", ZeroAddress)
    /\ UNCHANGED <<poolVars, nftVars, sbtVars>>

\* ------------------------------------------------------ event listeners
\* The pool's Deposit and Withdraw events as the listeners receive them:
\* transaction 1 is a Deposit, transaction 2 a Withdraw of the same owner.
\* A delivery may come from the live subscription or from a sync of past
\* blocks, any number of times. Amounts are in base units (formatUnits only
\* moves the decimal point).
EventOf(txHash) ==
    IF txHash = 1 THEN [type |-> "Deposit", assets |-> 2, shares |-> 2]
    ELSE [type |-> "Withdraw", assets |-> 1, shares |-> 1]

\* the increments of the provider's row for one event
Increment(lp, event) ==
    IF event.type = "Deposit"
    THEN [lp EXCEPT !.exists = TRUE, !.totalDeposited = @ + event.assets,
                    !.currentShares = @ + event.shares]
    ELSE [lp EXCEPT !.totalWithdrawn = @ + event.assets,
                    !.currentShares = @ - event.shares]

Finished(s) == [handlers EXCEPT ![s] = NoHandler]
Continued(s, pc) == [handlers EXCEPT ![s].pc = pc]

\* standalone listener, handleDeposit / handleWithdraw: the handler starts
\* unless the hash is in the in-memory set
StandaloneHandle ==
    \E s \in HandlerSlots, h \in TxHashes :
        /\ handlers[s] = NoHandler
        /\ applied[h] < MaxApplied
        /\ h \notin processedTxHashes
        /\ handlers' = [handlers EXCEPT ![s] = [pc |-> "standalone.upsert", txHash |-> h]]
        /\ UNCHANGED <<poolVars, nftVars, sbtVars, now, last, transactions, lpTotals,
                       applied, processedTxHashes>>

\* liquidityProvider.upsert (Deposit) or update (Withdraw; throws when the
\* row is missing, which the handler catches)
StandaloneUpsert ==
    \E s \in HandlerSlots :
        LET h == handlers[s].txHash
        IN /\ handlers[s].pc = "standalone.upsert"
           /\ IF EventOf(h).type = "Withdraw" /\ ~lpTotals.exists
              THEN /\ handlers' = Finished(s)
                   /\ UNCHANGED <<lpTotals, applied>>
              ELSE /\ lpTotals' = Increment(lpTotals, EventOf(h))
                   /\ applied' = [applied EXCEPT ![h] = @ + 1]
                   /\ handlers' = Continued(s, "standalone.create")
           /\ UNCHANGED <<poolVars, nftVars, sbtVars, now, last, transactions,
                          processedTxHashes>>

\* liquidityTransaction.create (txHash is a unique column: a second row
\* throws), then processedTxHashes.add
StandaloneCreate ==
    \E s \in HandlerSlots :
        LET h == handlers[s].txHash
        IN /\ handlers[s].pc = "standalone.create"
           /\ handlers' = Finished(s)
           /\ IF h \in transactions
              THEN UNCHANGED <<transactions, processedTxHashes>>
              ELSE /\ transactions' = transactions \cup {h}
                   /\ processedTxHashes' = processedTxHashes \cup {h}
           /\ UNCHANGED <<poolVars, nftVars, sbtVars, now, last, lpTotals, applied>>

\* LiquidityEventListener.handleDeposit / handleWithdraw: the handler goes
\* on unless liquidityTransaction.findUnique finds the hash
ServiceHandle ==
    \E s \in HandlerSlots, h \in TxHashes :
        /\ handlers[s] = NoHandler
        /\ applied[h] < MaxApplied
        /\ h \notin transactions
        /\ handlers' = [handlers EXCEPT ![s] = [pc |-> "service.findProvider", txHash |-> h]]
        /\ UNCHANGED <<poolVars, nftVars, sbtVars, now, last, transactions, lpTotals,
                       applied, processedTxHashes>>

\* liquidityProvider.findUnique: a Deposit creates the missing row with
\* zero totals, a Withdraw without a row returns
ServiceFindProvider ==
    \E s \in HandlerSlots :
        LET h == handlers[s].txHash
        IN /\ handlers[s].pc = "service.findProvider"
           /\ IF EventOf(h).type = "Withdraw" /\ ~lpTotals.exists
              THEN /\ handlers' = Finished(s)
                   /\ UNCHANGED lpTotals
              ELSE /\ lpTotals' = [lpTotals EXCEPT !.exists = TRUE]
                   /\ handlers' = Continued(s, "service.create")
           /\ UNCHANGED <<poolVars, nftVars, sbtVars, now, last, transactions, applied,
                          processedTxHashes>>

\* liquidityTransaction.create: throws on a hash that is already recorded
ServiceCreate ==
    \E s \in HandlerSlots :
        LET h == handlers[s].txHash
        IN /\ handlers[s].pc = "service.create"
           /\ IF h \in transactions
              THEN /\ handlers' = Finished(s)
                   /\ UNCHANGED transactions
              ELSE /\ transactions' = transactions \cup {h}
                   /\ handlers' = Continued(s, "service.update")
           /\ UNCHANGED <<poolVars, nftVars, sbtVars, now, last, lpTotals, applied,
                          processedTxHashes>>

\* liquidityProvider.update with the increments
ServiceUpdate ==
    \E s \in HandlerSlots :
        LET h == handlers[s].txHash
        IN /\ handlers[s].pc = "service.update"
           /\ lpTotals' = Increment(lpTotals, EventOf(h))
           /\ applied' = [applied EXCEPT ![h] = @ + 1]
           /\ handlers' = Finished(s)
           /\ UNCHANGED <<poolVars, nftVars, sbtVars, now, last, transactions,
                          processedTxHashes>>

\* the listener process is stopped and started again: the database stays,
\* the in-memory set and the handlers in flight are gone
Restart ==
    /\ processedTxHashes' = {}
    /\ handlers' = [s \in HandlerSlots |-> NoHandler]
    /\ UNCHANGED <<poolVars, nftVars, sbtVars, now, last, transactions, lpTotals, applied>>

\* ------------------------------------------------------- specifications
\* Deployment wiring (DEPLOYMENT.md step 4) and KYB of the borrower b1
WireNFT == setInvoiceNFT(Owner)
WireSBT == setIdentitySBT(Owner)
WirePool == setLiquidityPool(Owner)
Verify == sbtMint(SbtAdmin, "b1", 1)

\* Spec: the loan book.  One liquidity provider, one borrower and the oracle
\* drive the pool through funding, repayment and burning.
Deposit == deposit("lp1", MaxAmount, "lp1", "ok")
Redeem == redeem("lp1", MaxAmount, "lp1", "lp1")
FundLoan == FundLoanIssued({"b1"}, Hashes, LoanAmounts, DueDates)
RepayLoan == \E t \in TokenIds, y \in SmallYields : repayLoan(OracleKey, t, y)
DepositRepayment == \E a \in RepaymentAmounts : depositRepayment(OracleKey, a, "ok")
BurnRepaidInvoice == \E c \in OracleCallers, t \in TokenIds : burnRepaidInvoice(c, t)
SetMaxUtilization == \E u \in UtilizationInputs : setMaxUtilization(Owner, u)

Next ==
    \/ Deposit \/ Redeem
    \/ FundLoan \/ RepayLoan \/ DepositRepayment \/ BurnRepaidInvoice
    \/ WireNFT \/ WireSBT \/ WirePool \/ Verify
    \/ SetMaxUtilization

Spec == Init /\ [][Next]_vars

\* SpecVault: the ERC-4626 vault.  A liquidity provider deposits and mints;
\* they and a spender they approved withdraw and redeem, around two loans,
\* their repayment with and without yield, and the protocol fees.
VaultDeposit == deposit("lp1", MaxAmount, "lp1", "ok")
VaultMint == mint("lp1", LoanSmall, "lp1", "ok")
VaultWithdraw == \E c \in LPs : withdraw(c, LoanSmall, c, "lp1")
VaultRedeem == \E c \in LPs : redeem(c, LoanSmall, c, "lp1")
VaultApprove == approve("lp1", "lp2", UintMax)
VaultFundLoan ==
    \E h \in Hashes :
        fundLoan("b1", Authorization(oracle, h, LoanSmall, MaxTime + 1, h, "none"),
                 TRUE, "none")
VaultRepayLoan == \E t \in TokenIds, y \in Yields : repayLoan(OracleKey, t, y)
VaultDepositRepayment == \E a \in RepaymentAmounts : depositRepayment(OracleKey, a, "ok")
VaultWithdrawFees == withdrawFees(Owner)
VaultSetProtocolFee == \E f \in FeeInputs : setProtocolFee(Owner, f)

NextVault ==
    \/ VaultDeposit \/ VaultMint \/ VaultWithdraw \/ VaultRedeem \/ VaultApprove
    \/ VaultFundLoan \/ VaultRepayLoan \/ VaultDepositRepayment
    \/ VaultWithdrawFees \/ VaultSetProtocolFee
    \/ WireNFT \/ WireSBT \/ WirePool \/ Verify

SpecVault == Init /\ [][NextVault]_vars

\* SpecSig: what an authorization is worth.  One verified business submits
\* authorizations as issued, signed by another key, or with one field changed
\* after signing, reusing nonces, while the owner rotates the oracle, the
\* business is suspended and reinstated, and time passes.
SigDeposit == deposit("lp1", MaxAmount, "lp1", "ok")
SigFundLoan == FundLoanIssued({"b1"}, Hashes, {LoanSmall}, LaterDueDates)
SigFundLoanTampered == FundLoanTampered({"b1"})
SetOracle ==
    \E c \in AdminCallers, o \in Signers \cup {ZeroAddress} : setOracle(c, o)
Suspend == deactivate(SbtAdmin, 1)
Reinstate == reactivate(SbtAdmin, 1)

NextSig ==
    \/ SigDeposit \/ SigFundLoan \/ SigFundLoanTampered
    \/ SetOracle \/ Suspend \/ Reinstate
    \/ WireNFT \/ WireSBT \/ WirePool \/ Verify
    \/ Tick

SpecSig == Init /\ [][NextSig]_vars

\* SpecAuth: who may fund.  Two businesses pass through the KYB life cycle
\* (credential minted, deactivated, reactivated, burned, wallet blacklisted)
\* while each submits genuine authorizations.
AuthDeposit == deposit("lp1", MaxAmount, "lp1", "ok")
AuthFundLoan == FundLoanIssued(Businesses, Hashes, {LoanSmall}, DueDates)
SbtMint == \E c \in SbtCallers, w \in Businesses, tier \in {0, 1} : sbtMint(c, w, tier)
SbtBurn == \E c \in SbtCallers, t \in SbtIds : sbtBurn(c, t)
Deactivate == \E c \in SbtCallers, t \in SbtIds : deactivate(c, t)
Reactivate == \E c \in SbtCallers, t \in SbtIds : reactivate(c, t)
Blacklist == \E c \in SbtCallers, w \in Businesses : blacklist(c, w)

NextAuth ==
    \/ AuthDeposit \/ AuthFundLoan
    \/ SbtMint \/ SbtBurn \/ Deactivate \/ Reactivate \/ Blacklist
    \/ WireNFT \/ WireSBT \/ WirePool

SpecAuth == Init /\ [][NextAuth]_vars

\* Repayment with yield, as the backend does it: the oracle deposits
\* principal + actualYield with depositRepayment and then calls repayLoan,
\* under every fee setting and for several pool sizes.
YieldDeposit == \E a \in {LoanBoundary, MaxAmount} : deposit("lp1", a, "lp1", "ok")
YieldRedeem == redeem("lp1", LoanSmall, "lp1", "lp1")
YieldSetProtocolFee == \E f \in YieldFeeInputs : setProtocolFee(Owner, f)
YieldDepositRepayment == \E y \in YieldInputs : depositRepayment(OracleKey, LoanSmall + y, "ok")
YieldRepayLoan == \E t \in TokenIds, y \in YieldInputs : repayLoan(OracleKey, t, y)

NextYield ==
    \/ WireNFT
    \/ WireSBT
    \/ WirePool
    \/ Verify
    \/ YieldDeposit
    \/ YieldRedeem
    \/ VaultFundLoan
    \/ YieldSetProtocolFee
    \/ YieldDepositRepayment
    \/ YieldRepayLoan

SpecYield == Init /\ [][NextYield]_vars

\* The vault alone: liquidity providers deposit, mint, withdraw and redeem
\* from the empty pool; no loan, repayment or fee call is made. The asset's
\* transfers succeed or revert.
SharesDeposit == \E c \in LPs, a \in ShareAmounts, x \in {"ok", "reverts"} : deposit(c, a, c, x)
SharesMint == \E c \in LPs, n \in ShareAmounts, x \in {"ok", "reverts"} : mint(c, n, c, x)
SharesWithdraw == \E c \in LPs, o \in LPs, a \in ShareAmounts : withdraw(c, a, c, o)
SharesRedeem == \E c \in LPs, o \in LPs, n \in ShareAmounts : redeem(c, n, c, o)
SharesApprove == approve("lp1", "lp2", UintMax)

NextShares ==
    \/ SharesDeposit
    \/ SharesMint
    \/ SharesWithdraw
    \/ SharesRedeem
    \/ SharesApprove

SpecShares == Init /\ [][NextShares]_vars

\* The vault with an asset token of any behaviour: its transferFrom moves the
\* tokens, reverts, or returns false and moves nothing.
TokenDeposit == \E c \in LPs, a \in ShareAmounts, x \in TransferOutcomes : deposit(c, a, c, x)
TokenMint == \E c \in LPs, n \in ShareAmounts, x \in TransferOutcomes : mint(c, n, c, x)

NextToken ==
    \/ TokenDeposit
    \/ TokenMint
    \/ SharesWithdraw
    \/ SharesRedeem

SpecToken == Init /\ [][NextToken]_vars

\* The worked example: one provider deposits 1,000,000, a loan of 400,000 is
\* funded, the oracle deposits 416,000 and repays with a yield of 16,000; the
\* provider then redeems everything and the owner collects the fees.
\* Amounts are counted in units of 1,600 token units: every amount of the
\* example and its fee of 1,600 are whole multiples, so no division in the
\* calls rounds, and the products stay within the checker's integers.
Example == [unit |-> 1600, deposit |-> 625, loan |-> 250, repayment |-> 260, yield |-> 10]
ExamplePool == 2 * Example.deposit
ExampleDeposit == depositUpTo(ExamplePool, "lp1", Example.deposit, "lp1", "ok")
ExampleFundLoan == \E h \in Hashes, n \in Nonces : fundLoan("b1", Authorization(oracle, h, Example.loan, MaxTime + 1, n, "none"), TRUE, "none")
ExampleDepositRepayment == depositRepaymentUpTo(ExamplePool, OracleKey, Example.repayment, "ok")
ExampleRepayLoan == \E t \in TokenIds : repayLoan(OracleKey, t, Example.yield)
ExampleRedeemAll == redeem("lp1", balances["lp1"], "lp1", "lp1")

NextExample ==
    \/ WireNFT
    \/ WireSBT
    \/ WirePool
    \/ Verify
    \/ ExampleDeposit
    \/ ExampleFundLoan
    \/ ExampleDepositRepayment
    \/ ExampleRepayLoan
    \/ ExampleRedeemAll
    \/ VaultWithdrawFees

SpecExample == Init /\ [][NextExample]_vars

\* Loans of every rating: the service signs authorizations for risk scores on
\* both sides of each threshold and the business submits them.
RiskScores == {0, 10, 11, 20, 21, 35, 36, 50, 51, 65, 66, 80, 81, 100}
RatingFundLoan == \E h \in Hashes, r \in RiskScores : fundLoan("b1", generateLoanSignature(oracle, Pool, h, Example.loan, MaxTime + 1, Seller, r, "ipfs", h), TRUE, "none")

NextRating ==
    \/ WireNFT
    \/ WireSBT
    \/ WirePool
    \/ Verify
    \/ ExampleDeposit
    \/ RatingFundLoan

SpecRating == Init /\ [][NextRating]_vars

\* The backend's two repayment paths. LiquidityPoolService.repayLoan reads the
\* loan, requires it active, sends depositRepayment(principal + actualYield),
\* waits for it and then sends repayLoan: its second transaction is modelled
\* as enabled when the pool's last call is that deposit. The settlement
\* webhook reads the loan, requires it active and sends repayLoan alone.
ServiceDepositRepayment == \E t \in TokenIds, y \in YieldInputs : loans[t].isActive /\ depositRepayment(OracleKey, loans[t].principal + y, "ok")
ServiceRepayLoan == \E t \in TokenIds, y \in YieldInputs : loans[t].isActive /\ last.op = "depositRepayment" /\ last.err = "ok" /\ last.amount = loans[t].principal + y /\ repayLoan(OracleKey, t, y)
WebhookRepayLoan == \E t \in TokenIds, y \in {0} \cup YieldInputs : loans[t].isActive /\ repayLoan(OracleKey, t, y)

NextBackend ==
    \/ WireNFT
    \/ WireSBT
    \/ WirePool
    \/ Verify
    \/ YieldDeposit
    \/ VaultFundLoan
    \/ ServiceDepositRepayment
    \/ ServiceRepayLoan
    \/ WebhookRepayLoan

SpecBackend == Init /\ [][NextBackend]_vars

\* ----------------------------------------------- the oracle at the NFT
\* The oracle key is InvoiceNFT's `oracle` as well as the pool's, so it can
\* call the NFT contract without the pool.
DirectMint == \E c \in OracleCallers, h \in Hashes : nftMint(c, Seller, h, "ipfs", LoanSmall, MaxTime + 1, 50)
DirectMarkRepaid == \E c \in OracleCallers, t \in TokenIds : markRepaid(c, t)
DirectBurn == \E c \in OracleCallers, t \in TokenIds : burn(c, t)

NextDirect ==
    \/ WireNFT
    \/ WireSBT
    \/ WirePool
    \/ Verify
    \/ YieldDeposit
    \/ SigFundLoan
    \/ YieldRepayLoan
    \/ BurnRepaidInvoice
    \/ DirectMint
    \/ DirectMarkRepaid
    \/ DirectBurn

SpecDirect == Init /\ [][NextDirect]_vars

\* ------------------------------------------- small deposits after yield
\* The yield cycle of SpecYield, with deposits of the smallest amount.
UnitDeposit == \E c \in LPs : deposit(c, 1, c, "ok")

NextUnit ==
    \/ WireNFT
    \/ WireSBT
    \/ WirePool
    \/ Verify
    \/ YieldDeposit
    \/ UnitDeposit
    \/ VaultFundLoan
    \/ YieldDepositRepayment
    \/ YieldRepayLoan

SpecUnit == Init /\ [][NextUnit]_vars

\* -------------------------------------------------------- the listeners
NextListener ==
    \/ StandaloneHandle
    \/ StandaloneUpsert
    \/ StandaloneCreate
    \/ ServiceHandle
    \/ ServiceFindProvider
    \/ ServiceCreate
    \/ ServiceUpdate
    \/ Restart

SpecListener == Init /\ [][NextListener]_vars

\* ================================================================ claims
ActiveLoansOf(f) == {t \in TokenIds : loans[t].isActive /\ loans[t].documentHash = f}
FundLoanSucceeded == last.op = "fundLoan" /\ last.err = "ok"
\* a fundLoan that passed the caller gate and the nonce check and reverted later
FundLoanRejectedLater ==
    /\ last.op = "fundLoan"
    /\ last.err \notin {"ok", "ZeroAddress", "NotVerifiedBusiness", "NonceAlreadyUsed"}

\* C1: no invoice fingerprint has two active loans: for each documentHash at
\* most one loan is active, and a loan that fundLoan has just funded is the only
\* active loan of its fingerprint (a request for a fingerprint with an active
\* loan funded nothing)
C1_NoDoubleFinancing ==
    /\ \A f \in Hashes : Cardinality(ActiveLoansOf(f)) <= 1
    /\ FundLoanSucceeded =>
           ActiveLoansOf(loans[last.tokenId].documentHash) = {last.tokenId}

\* a fundLoan has been rejected with DocumentAlreadyFinanced while every
\* financed fingerprint had an active loan
C1_Witness ==
    /\ last.op = "fundLoan" /\ last.err = "DocumentAlreadyFinanced"
    /\ \E f \in Hashes : isDocumentFinanced(f)
    /\ \A f \in Hashes : isDocumentFinanced(f) => ActiveLoansOf(f) # {}

C4_UtilizationCap ==
    FundLoanSucceeded =>
        /\ ~TotalAssetsPanics
        /\ totalActiveLoans <= ((idle + totalActiveLoans - accumulatedFees) * maxUtilizationBps) \div 10000

\* a loan has been funded that takes the pool exactly to its 90% cap
C4_Witness ==
    /\ FundLoanSucceeded
    /\ maxUtilizationBps = 9000
    /\ totalActiveLoans = LoanBoundary
    /\ idle + totalActiveLoans - accumulatedFees = MaxAmount

\* C5 as stated: idle + totalActiveLoans >= accumulatedFees in every reachable
\* state, so that totalAssets never underflows
C5_FeesCovered == idle + totalActiveLoans >= accumulatedFees

\* C6: every successful withdraw or redeem leaves the idle balance at or above
\* the fee reserve
C6_WithdrawKeepsFeeReserve ==
    (last.op \in {"withdraw", "redeem"} /\ last.err = "ok") => idle >= accumulatedFees

\* a withdraw or redeem has succeeded while fees were reserved
C6_Witness ==
    /\ last.op \in {"withdraw", "redeem"} /\ last.err = "ok"
    /\ accumulatedFees > 0

\* C7: totalActiveLoans is the sum of the principals of the active loans
C7_ActiveLoansSum ==
    totalActiveLoans =
        SumOver([t \in TokenIds |-> IF loans[t].isActive THEN loans[t].principal ELSE 0],
                TokenIds)

\* a loan has been repaid while another one stays active
C7_Witness ==
    /\ last.op = "repayLoan" /\ last.err = "ok"
    /\ \E t \in TokenIds : loans[t].isActive
    /\ totalActiveLoans > 0

\* C8: fundLoan succeeds only with an authorization that the currently
\* configured oracle signed, for this pool, over exactly the submitted fields
C8_OracleSignedExactTuple ==
    FundLoanSucceeded => (last.trusted /\ last.tamper = "none")

\* a loan has been funded under the key the owner rotated the oracle to
C8_Witness ==
    /\ FundLoanSucceeded
    /\ last.trusted
    /\ oracle = OtherKey

C10_FinancedIffActive ==
    \A f \in Hashes : isDocumentFinanced(f) <=> ActiveLoansOf(f) # {}

\* C10, amended: a fingerprint counts as financed exactly while the NFT of a
\* loan with that fingerprint exists, that is from funding through repayment
\* until the NFT is burned
C10_FinancedUntilBurned ==
    \A f \in Hashes :
        isDocumentFinanced(f) <=>
            \E t \in TokenIds : /\ loans[t].principal > 0
                                /\ loans[t].documentHash = f
                                /\ nftOwners[t] # ZeroAddress

\* a loan is repaid, its NFT not yet burned, and its fingerprint still counts
\* as financed
C10_Witness ==
    \E t \in TokenIds :
        /\ loans[t].principal > 0 /\ ~loans[t].isActive
        /\ nftOwners[t] # ZeroAddress
        /\ isDocumentFinanced(loans[t].documentHash)

\* the life cycle of a loan id, read from the pool's record and the NFT
LoanState(t) ==
    IF loans[t].principal = 0 THEN "None"
    ELSE IF loans[t].isActive THEN "Active"
    ELSE IF nftOwners[t] # ZeroAddress THEN "Repaid"
    ELSE "Burned"

LoansOf(f) == {t \in TokenIds : loans[t].principal # 0 /\ loans[t].documentHash = f}

\* the pool can lend `amount` more: the utilization cap and the idle balance
\* net of fees both allow it
HasCapacity(amount) ==
    /\ ~TotalAssetsPanics
    /\ ~AvailableLiquidityPanics
    /\ totalActiveLoans + amount <= (totalAssets * maxUtilizationBps) \div BPS
    /\ amount <= idle - accumulatedFees

\* C11: a fingerprint whose loans have all been repaid and burned can be
\* financed again: a fundLoan of a verified business for it with an unused
\* nonce, the oracle's signature, a due date in the future and an amount the
\* pool has capacity for is accepted, and a loan that fundLoan has just
\* created is active under a token id above every id used before
C11_RefinanceAfterBurn ==
    /\ \A t \in TokenIds, a \in LoanAmounts, n \in Nonces :
           (/\ LoanState(t) = "Burned"
            /\ \A u \in LoansOf(loans[t].documentHash) : LoanState(u) = "Burned"
            /\ n \notin usedNonces
            /\ isVerifiedBusiness("b1")
            /\ HasCapacity(a))
           => FundLoanErr("b1", Authorization(oracle, loans[t].documentHash, a,
                                              MaxTime + 1, n, "none")) = "ok"
    /\ FundLoanSucceeded =>
           /\ LoanState(last.tokenId) = "Active"
           /\ \A u \in TokenIds : LoanState(u) # "None" => u <= last.tokenId

\* fundLoan has financed a fingerprint whose earlier loan was repaid and burned
C11_Witness ==
    /\ FundLoanSucceeded
    /\ \E t \in TokenIds :
           /\ t < last.tokenId
           /\ LoanState(t) = "Burned"
           /\ loans[t].documentHash = loans[last.tokenId].documentHash

LoanCallSucceeded(op, t) == last'.op = op /\ last'.err = "ok" /\ last'.tokenId = t

\* C12: a loan id moves only None -> Active -> Repaid -> Burned: its state
\* changes only by a successful fundLoan that creates it (None to Active), a
\* successful repayLoan of it (Active to Repaid) or a successful
\* burnRepaidInvoice of it (Repaid to Burned); each of these calls, when it
\* succeeds, makes exactly its own transition, so a Repaid loan is never
\* Active again and the oracle's burnRepaidInvoice is rejected for an id that
\* is Active, never funded or already burned
C12_LoanLifeCycle ==
    [][\A t \in TokenIds :
         /\ LoanState(t)' # LoanState(t) =>
               \/ LoanCallSucceeded("fundLoan", t)
               \/ LoanCallSucceeded("repayLoan", t)
               \/ LoanCallSucceeded("burnRepaidInvoice", t)
         /\ LoanCallSucceeded("fundLoan", t) =>
               LoanState(t) = "None" /\ LoanState(t)' = "Active"
         /\ LoanCallSucceeded("repayLoan", t) =>
               LoanState(t) = "Active" /\ LoanState(t)' = "Repaid"
         /\ LoanCallSucceeded("burnRepaidInvoice", t) =>
               LoanState(t) = "Repaid" /\ LoanState(t)' = "Burned"
         /\ LoanState(t) # "Repaid" => BurnRepaidInvoiceErr(oracle, t) # "ok"]_vars

\* a loan has gone through its whole life cycle while another id was never
\* funded, and the last burnRepaidInvoice was rejected
C12_Witness ==
    /\ last.op = "burnRepaidInvoice" /\ last.err # "ok"
    /\ \E t, u \in TokenIds : LoanState(t) = "Burned" /\ LoanState(u) # "Burned"

RepayLoanReturned(ok) == last'.op = "repayLoan" /\ (last'.err = "ok") = ok

\* C13: the oracle's repayLoan of a loan that is not active is rejected with
\* LoanNotActive; a rejected repayLoan leaves totalActiveLoans,
\* accumulatedFees and the loan records as they were; a successful one finds
\* its loan active, clears the flag, subtracts that loan's principal and adds
\* a fee; totalActiveLoans falls by no other call and no inactive loan
\* becomes active again, so each loan is subtracted and charged at most once
C13_RepayOnlyActiveOnce ==
    [][/\ \A t \in TokenIds :
              ~loans[t].isActive => RepayLoanErr(oracle, t) = "LoanNotActive"
       /\ RepayLoanReturned(FALSE) =>
              UNCHANGED <<totalActiveLoans, accumulatedFees, loans>>
       /\ RepayLoanReturned(TRUE) =>
              /\ loans[last'.tokenId].isActive
              /\ ~loans'[last'.tokenId].isActive
              /\ totalActiveLoans' = totalActiveLoans - loans[last'.tokenId].principal
              /\ accumulatedFees' >= accumulatedFees
              /\ \A u \in TokenIds \ {last'.tokenId} : loans'[u] = loans[u]
       /\ (totalActiveLoans' < totalActiveLoans \/ accumulatedFees' > accumulatedFees)
              => RepayLoanReturned(TRUE)
       /\ \A t \in TokenIds :
              (loans'[t].isActive /\ ~loans[t].isActive) => loans[t].principal = 0]_vars

\* repayLoan has been rejected with LoanNotActive while a loan stood repaid
C13_Witness ==
    /\ last.op = "repayLoan" /\ last.err = "LoanNotActive"
    /\ \E t \in TokenIds : LoanState(t) \in {"Repaid", "Burned"}
    /\ \A t \in TokenIds : LoanState(t) # "Active"

\* a successful repayLoan with positive yield that directly follows the
\* deposit of exactly the loan's principal plus that yield, on a pool with
\* shares outstanding whose totalAssets was defined before the deposit
RepaidWithYield ==
    /\ last'.op = "repayLoan" /\ last'.err = "ok" /\ last'.amount > 0
    /\ last.op = "depositRepayment" /\ last.err = "ok"
    /\ last.amount = loans[last'.tokenId].principal + last'.amount
    /\ totalSupply > 0
    /\ idle - last.amount + totalActiveLoans >= accumulatedFees

\* totalAssets before the repayment funds were deposited
AssetsBeforeRepayment == idle - last.amount + totalActiveLoans - accumulatedFees

C15_ShareValueConstant ==
    /\ ~TotalAssetsPanics
    /\ totalAssets = totalSupply
    /\ \A n \in 0..MaxPool : convertToAssets(n) = n /\ convertToShares(n) = n

\* shares have been taken out and shares of both providers remain
C15_Witness ==
    /\ last.op \in {"withdraw", "redeem"} /\ last.err = "ok"
    /\ balances["lp1"] > 0 /\ balances["lp2"] > 0

VaultCallSucceeded ==
    last'.op \in {"deposit", "mint", "withdraw", "redeem"} /\ last'.err = "ok"

\* C16: no successful deposit, mint, withdraw or redeem lowers the value of
\* the shares that remain: when shares are outstanding before and after,
\* totalAssets after times totalSupply before is at least totalAssets before
\* times totalSupply after
C16_RoundingFavoursPool ==
    [][(VaultCallSucceeded /\ totalSupply > 0 /\ totalSupply' > 0) =>
          /\ ~TotalAssetsPanics /\ ~TotalAssetsPanics'
          /\ totalAssets' * totalSupply >= totalAssets * totalSupply']_vars

\* assets have been withdrawn at a share price that is not a whole number,
\* and the price still is not a whole number
C16_Witness ==
    /\ last.op = "withdraw" /\ last.err = "ok"
    /\ totalSupply > 0 /\ ~TotalAssetsPanics
    /\ totalAssets > totalSupply
    /\ totalAssets % totalSupply # 0

\* C17: in every state where the conversions are defined, converting an
\* amount of assets to shares and back gives at most that amount
C17_RoundTripBound ==
    (~ConvertToSharesPanics /\ ~ConvertToAssetsPanics) =>
        \A a \in 0..MaxPool : convertToAssets(convertToShares(a)) <= a

\* a state with shares outstanding in which the round trip of some amount
\* loses assets and the round trip of another returns it exactly
C17_Witness ==
    /\ totalSupply > 0
    /\ ~ConvertToSharesPanics /\ ~ConvertToAssetsPanics
    /\ \E a \in 1..MaxPool : convertToAssets(convertToShares(a)) < a
    /\ \E a \in 1..MaxPool : convertToAssets(convertToShares(a)) = a

\* q is x / y rounded down, rounded up
IsFloor(q, x, y) == q * y <= x /\ x < (q + 1) * y
IsCeil(q, x, y) == (q - 1) * y < x /\ x <= q * y

\* the four previews in a state: the rounded quotients when shares are
\* outstanding and the conversion is defined, their argument when none are
PreviewsAsSpecified ==
    \A n \in 1..MaxPool :
        IF totalSupply = 0
        THEN /\ ~ConvertToSharesPanics /\ ~ConvertToAssetsPanics
             /\ previewDeposit(n) = n /\ previewRedeem(n) = n
             /\ previewWithdraw(n) = n /\ previewMint(n) = n
        ELSE /\ ~ConvertToSharesPanics =>
                 /\ IsFloor(previewDeposit(n), n * totalSupply, totalAssets)
                 /\ IsCeil(previewWithdraw(n), n * totalSupply, totalAssets)
             /\ ~ConvertToAssetsPanics =>
                 /\ IsFloor(previewRedeem(n), n * totalAssets, totalSupply)
                 /\ IsCeil(previewMint(n), n * totalAssets, totalSupply)

\* a successful vault call moves the amounts its preview gave in the state
\* it was called in
MovesPreviewedAmounts ==
    /\ (last'.op = "deposit" /\ last'.err = "ok") =>
           totalSupply' - totalSupply = previewDeposit(idle' - idle)
    /\ (last'.op = "mint" /\ last'.err = "ok") =>
           idle' - idle = previewMint(totalSupply' - totalSupply)
    /\ (last'.op = "withdraw" /\ last'.err = "ok") =>
           totalSupply - totalSupply' = previewWithdraw(idle - idle')
    /\ (last'.op = "redeem" /\ last'.err = "ok") =>
           idle - idle' = previewRedeem(totalSupply - totalSupply')

\* C18: with shares outstanding previewDeposit and previewRedeem are the
\* quotients rounded down and previewWithdraw and previewMint the quotients
\* rounded up; with no shares all four return their argument and do not
\* fail; deposit, mint, withdraw and redeem mint, burn and transfer exactly
\* the previewed amounts
C18_PreviewRounding == []PreviewsAsSpecified /\ [][MovesPreviewedAmounts]_vars

\* shares have been minted at a price that is not a whole number, where
\* rounding up and rounding down differ
C18_Witness ==
    /\ last.op = "mint" /\ last.err = "ok"
    /\ totalSupply > 0 /\ ~TotalAssetsPanics
    /\ totalAssets % totalSupply # 0
    /\ previewMint(1) # previewRedeem(1)

\* C19: no deposit or mint gives a receiver shares unless the pool's asset
\* balance grew by the assets those shares were issued for: on every step in
\* which a share balance grows, the pool's balance grows too, by the amount
\* whose preview the minted shares are
C19_SharesOnlyForAssets ==
    [][(\E r \in LPs : balances'[r] > balances[r]) =>
          /\ idle' > idle
          /\ \/ totalSupply' - totalSupply = previewDeposit(idle' - idle)
             \/ idle' - idle = previewMint(totalSupply' - totalSupply)]_vars

\* the condition each of fundLoan's six checks rejects, for a request with
\* fingerprint h, amount a, due date d and nonce n, signed by the oracle
\* (trusted) or by another key
CheckViolated(check, h, a, d, n, trusted) ==
    IF check = "NonceAlreadyUsed" THEN n \in usedNonces
    ELSE IF check = "InvalidSignature" THEN ~trusted
    ELSE IF check = "InvoiceExpired" THEN d <= now
    ELSE IF check = "ExceedsMaxUtilization"
         THEN totalActiveLoans + a > (totalAssets * maxUtilizationBps) \div BPS
    ELSE IF check = "InsufficientLiquidity" THEN a > idle - accumulatedFees
    ELSE isDocumentFinanced(h)

\* the order of the checks in fundLoan, and the order with the due date third
CodeCheckOrder == <<"NonceAlreadyUsed", "InvalidSignature", "ExceedsMaxUtilization", "InsufficientLiquidity", "InvoiceExpired", "DocumentAlreadyFinanced">>
DueDateThirdOrder == <<"NonceAlreadyUsed", "InvalidSignature", "InvoiceExpired", "ExceedsMaxUtilization", "InsufficientLiquidity", "DocumentAlreadyFinanced">>

FirstViolated(order, h, a, d, n, trusted) ==
    LET V == {i \in 1..Len(order) : CheckViolated(order[i], h, a, d, n, trusted)}
    IN IF V = {} THEN "ok" ELSE order[CHOOSE i \in V : \A j \in V : i <= j]

\* fundLoan of a verified business on a wired pool whose balance covers the
\* fees is rejected with the first violated check of `order`, and accepted
\* when no check is violated
RejectsInOrder(order) ==
    (/\ identitySBT # ZeroAddress /\ isVerifiedBusiness("b1")
     /\ invoiceNFT # ZeroAddress /\ NftAuthorized(Pool)
     /\ ~TotalAssetsPanics /\ ~AvailableLiquidityPanics
     /\ nftTokenIdCounter < MaxLoans)
    => \A h \in Hashes, a \in LoanAmounts, d \in DueDates, n \in Nonces, trusted \in BOOLEAN :
           FundLoanErr("b1", Authorization(IF trusted THEN oracle ELSE OtherSigner(oracle),
                                           h, a, d, n, "none"))
               = FirstViolated(order, h, a, d, n, trusted)

\* C20 as stated: fundLoan checks the nonce, the signature, the due date, the
\* utilization cap, the liquidity and the fingerprint in this order, and a
\* request is rejected with the error of the first check it violates
C20_DueDateBeforeCap == RejectsInOrder(DueDateThirdOrder)

\* C20: fundLoan checks the nonce, the signature, the utilization cap, the
\* liquidity, the due date and the fingerprint in this order, and a request
\* is rejected with the error of the first check it violates
C20_ChecksInCodeOrder == RejectsInOrder(CodeCheckOrder)

\* fundLoan has been rejected with ExceedsMaxUtilization in a state where a
\* request that is both past its due date and over the cap gets that error
C20_Witness ==
    /\ last.op = "fundLoan" /\ last.err = "ExceedsMaxUtilization"
    /\ \E n \in Nonces :
           /\ n \notin usedNonces
           /\ CheckViolated("InvoiceExpired", 1, MaxAmount, 0, n, TRUE)
           /\ CheckViolated("ExceedsMaxUtilization", 1, MaxAmount, 0, n, TRUE)
           /\ FundLoanErr("b1", Authorization(oracle, 1, MaxAmount, 0, n, "none"))
                  = "ExceedsMaxUtilization"

\* the state right after the example's four calls: one deposit of 1,000,000,
\* one loan of 400,000 funded and repaid with a yield of 16,000 after one
\* deposit of 416,000, at the default fee and utilization settings
ExampleRepaid ==
    /\ last.op = "repayLoan" /\ last.err = "ok" /\ last.amount = Example.yield
    /\ protocolFeeBps = DefaultProtocolFeeBps
    /\ maxUtilizationBps = DefaultMaxUtilizationBps
    /\ totalSupply = Example.deposit
    /\ idle = Example.deposit - Example.loan + Example.repayment
    /\ nftTokenIdCounter = 1
    /\ loans[1].principal = Example.loan

\* C21 as stated: after the example's calls accumulatedFees is 1,600,
\* totalActiveLoans is 0 and totalAssets() is 1,016,000
C21_ExampleAssetsWithFees ==
    ExampleRepaid =>
        /\ accumulatedFees * Example.unit = 1600
        /\ totalActiveLoans = 0
        /\ totalAssets * Example.unit = 1016000

\* C21: after the example's calls accumulatedFees is 1,600, totalActiveLoans
\* is 0, the pool's balance is 1,016,000 and totalAssets() is that balance
\* less the fees, 1,014,400, which is what the 1,000,000 shares convert to
C21_ExampleAssetsNetOfFees ==
    ExampleRepaid =>
        /\ Example.deposit * Example.unit = 1000000
        /\ Example.loan * Example.unit = 400000
        /\ Example.repayment * Example.unit = 416000
        /\ Example.yield * Example.unit = 16000
        /\ accumulatedFees * Example.unit = 1600
        /\ totalActiveLoans = 0
        /\ idle * Example.unit = 1016000
        /\ totalAssets * Example.unit = 1014400
        /\ convertToAssets(Example.deposit) * Example.unit = 1014400

C21_Witness == ExampleRepaid /\ accumulatedFees > 0

\* a holder owns the whole share supply and no loan is active
SoleHolder(h) == totalActiveLoans = 0 /\ totalSupply > 0 /\ balances[h] = totalSupply

\* C22: whenever no loan is active and one holder owns all shares, that
\* holder's redeem of all shares succeeds, pays out exactly totalAssets() and
\* leaves the pool's balance equal to accumulatedFees
C22_FullRedeem ==
    \A h \in LPs :
        SoleHolder(h) =>
            /\ RedeemErr(h, totalSupply, h, h) = "ok"
            /\ previewRedeem(totalSupply) = totalAssets
            /\ idle - previewRedeem(totalSupply) = accumulatedFees

\* C23: with maxUtilizationBps at its default of 9000, in every state the
\* active loans are at most 90% of totalAssets(): at least 10% of the pool's
\* assets stay idle
C23_CapInEveryState ==
    (maxUtilizationBps = DefaultMaxUtilizationBps /\ ~TotalAssetsPanics) =>
        totalActiveLoans * BPS <= totalAssets * DefaultMaxUtilizationBps

\* the rating table of the claim: upper threshold, rating, yield in bps
RatingTable == << <<10, "AAA", 200>>, <<20, "AA", 300>>, <<35, "A", 400>>, <<50, "BBB", 600>>, <<65, "BB", 800>>, <<80, "B", 1000>>, <<100, "CCC", 1500>> >>
TableRow(r) == RatingTable[CHOOSE i \in 1..Len(RatingTable) : r <= RatingTable[i][1] /\ \A j \in 1..(i - 1) : r > RatingTable[j][1]]

\* C24: for every risk score 0..100 the service's rating and yield rate are
\* those of the table, the rate is non-decreasing in the score, the expected
\* yield is amount * rate / 10000 rounded down, and the authorization it
\* signs carries that rate: a funded loan's expected yield is its principal
\* times the table rate of its invoice's risk score, over 10000, rounded down
C24_RatingTable ==
    /\ \A r \in 0..100 :
           /\ riskScoreToRating(r) = TableRow(r)[2]
           /\ \A a \in {0, LoanSmall, MaxAmount, Example.loan} :
                  LET y == calculateExpectedYield(a, r)
                  IN /\ y.rating = TableRow(r)[2]
                     /\ y.yieldBps = TableRow(r)[3]
                     /\ IsFloor(y.yieldAmount, a * TableRow(r)[3], BPS)
           /\ generateLoanSignature(oracle, Pool, 1, Example.loan, MaxTime + 1, Seller, r, "ipfs", 1).expectedYieldBps = TableRow(r)[3]
           /\ r < 100 => calculateExpectedYield(1, r).yieldBps <= calculateExpectedYield(1, r + 1).yieldBps
    /\ \A t \in TokenIds :
           loans[t].principal # 0 =>
               IsFloor(loans[t].expectedYield, loans[t].principal * TableRow(invoices[t].riskScore)[3], BPS)

\* a loan with a risk score just above a threshold has been funded, and its
\* expected yield is a rounded quotient
C24_Witness ==
    /\ FundLoanSucceeded
    /\ invoices[last.tokenId].riskScore = 11
    /\ loans[last.tokenId].expectedYield = 7
    /\ loans[last.tokenId].principal * 300 # 7 * BPS

\* C25: every repayLoan(tokenId, actualYield) that the backend sends follows
\* a confirmed depositRepayment of that loan's principal + actualYield: when
\* the pool accepts a repayLoan, the call before it was that deposit
C25_DepositBeforeRepay ==
    [][(last'.op = "repayLoan" /\ last'.err = "ok") =>
          /\ last.op = "depositRepayment" /\ last.err = "ok"
          /\ last.amount = loans[last'.tokenId].principal + last'.amount]_vars

\* C26: whenever maxWithdraw(owner) > 0 the owner's withdraw of that amount
\* succeeds, and whenever maxRedeem(owner) > 0 the owner's redeem of that
\* many shares succeeds; neither limit exceeds the worth of the owner's
\* shares nor the balance less the accumulated fees
C26_MaxLimitsUsable ==
    \A o \in LPs :
        /\ (~MaxWithdrawPanics /\ maxWithdraw(o) > 0) =>
               /\ WithdrawErr(o, maxWithdraw(o), o, o) = "ok"
               /\ maxWithdraw(o) <= convertToAssets(balances[o])
               /\ maxWithdraw(o) <= idle - accumulatedFees
        /\ (~MaxRedeemPanics(o) /\ maxRedeem(o) > 0) =>
               /\ RedeemErr(o, maxRedeem(o), o, o) = "ok"
               /\ maxRedeem(o) <= balances[o]
               /\ previewRedeem(maxRedeem(o)) <= idle - accumulatedFees

\* loans are active, the share price is not a whole number, and the limits
\* of a holder are cut down to what is idle
C26_Witness ==
    /\ totalActiveLoans > 0 /\ totalSupply > 0 /\ ~MaxRedeemPanics("lp1")
    /\ totalAssets % totalSupply # 0
    /\ 0 < maxWithdraw("lp1") /\ maxWithdraw("lp1") < convertToAssets(balances["lp1"])
    /\ 0 < maxRedeem("lp1") /\ maxRedeem("lp1") < balances["lp1"]

\* the invoice of an existing token is flagged repaid exactly when the pool
\* holds no active loan for it
FlagMatchesLoan ==
    \A t \in TokenIds :
        nftOwners[t] # ZeroAddress => (invoices[t].isRepaid <=> ~loans[t].isActive)

\* a fingerprint entry is removed only for a loan the pool has marked repaid
EntryRemovedAfterRepayment ==
    \A h \in Hashes :
        (documentHashToTokenId[h] # 0 /\ documentHashToTokenId'[h] = 0) =>
            LET t == documentHashToTokenId[h]
            IN loans[t].principal > 0 /\ ~loans[t].isActive

\* C27: for every minted token the NFT's isRepaid flag is true exactly when
\* the pool's loan is not active, and the fingerprint entry is removed only
\* after the pool marked the loan repaid, also when the oracle calls
\* InvoiceNFT.mint, markRepaid or burn itself
C27_NftFollowsPool == []FlagMatchesLoan /\ [][EntryRemovedAfterRepayment]_vars

\* the oracle's own markRepaid and burn free the fingerprint of a loan that
\* is still active, and the pool then funds the same document again
C27_SecondLoanOnActiveDocument ==
    ~(\E t, u \in TokenIds :
        t # u /\ loans[t].isActive /\ loans[u].isActive
              /\ loans[t].documentHash = loans[u].documentHash)

\* C28: every successful deposit of assets > 0 mints at least one share,
\* also after yield has raised the share price above 1:1
C28_DepositMintsShares ==
    [][(last'.op = "deposit" /\ last'.err = "ok" /\ idle' > idle) =>
           totalSupply' > totalSupply]_vars

\* C29: withdrawFees pays out exactly accumulatedFees and resets it to 0;
\* totalAssets, totalSupply, totalActiveLoans, every share balance and every
\* loan record stay as they were
C29_WithdrawFeesFrame ==
    [][(last'.op = "withdrawFees" /\ last'.err = "ok") =>
           /\ idle' = idle - accumulatedFees
           /\ accumulatedFees' = 0
           /\ totalAssets' = totalAssets
           /\ totalSupply' = totalSupply
           /\ totalActiveLoans' = totalActiveLoans
           /\ balances' = balances
           /\ loans' = loans]_vars

\* the fee of the repaid example loan has been paid out of the pool
C29_Witness ==
    /\ last.op = "withdrawFees" /\ last.err = "ok"
    /\ totalSupply = Example.deposit /\ totalActiveLoans = 0
    /\ loans[1].principal = Example.loan /\ ~loans[1].isActive
    /\ accumulatedFees = 0
    /\ idle * Example.unit = 1014400
    /\ totalSupply > 0

\* C30: the amounts of a Deposit or Withdraw event go into the provider's
\* totals at most once per transaction hash, however often and however
\* concurrently the event is delivered and whenever the listener restarts
C30_AppliedAtMostOnce == \A h \in TxHashes : applied[h] <= 1

====
